---------------------------- MODULE Spec2Model ----------------------------
(***************************************************************************)
(* A model of mmcls/models/backbones/conformer.py: the Conformer backbone. *)
(*                                                                         *)
(* The state is one Conformer object: its constructor arguments, the       *)
(* fields __init__ sets (arch_settings, trans_dpr, conv_1, the             *)
(* conv_trans_<i> stages, fin_stage), the normalization scales that        *)
(* init_weights writes, and the local variables of a running forward       *)
(* pass.  Tensors are modelled by their shapes and by the call that        *)
(* produced them; learnable weights by the last initialiser that wrote     *)
(* them.  Init is the state after construction (or the error __init__      *)
(* raised); the actions are the steps of init_weights and of forward.      *)
(***************************************************************************)
EXTENDS Integers, Sequences, FiniteSets, TLC

VARIABLES
    pc,         \* the statement that runs next ("ready" after construction)
    args,       \* the arguments Conformer.__init__ was called with
    self,       \* the fields __init__ set on the object
    err,        \* the exception that ended construction / init_weights / forward
    scale,      \* module path -> last write to that normalization layer's weight
    applied,    \* number of modules self.apply(_init_weights) has visited
    zeroed,     \* paths of the modules whose zero_init_last_bn hook has been called
    warned,     \* logger.warn was called by init_weights
    loads,      \* the load_checkpoint calls init_weights made
    img,        \* <<H, W>> of the input of the running forward pass
    i,          \* forward's loop variable
    x,          \* forward's x (convolutional branch)
    x_t,        \* forward's x_t (token branch)
    loc,        \* locals of the running ConvTransBlock.forward: x, x2, x_st, x_t, x_t_r
    calls,      \* the submodule calls the running ConvTransBlock.forward has made
    output      \* forward's output list

vars == <<pc, args, self, err, scale, applied, zeroed, warned, loads,
          img, i, x, x_t, loc, calls, output>>

-----------------------------------------------------------------------------
(* Bounds of the model.                                                    *)

\* depths of the settings mappings SpecArch draws: 0 .. MaxDepths
MaxDepths == 12
\* out_indices tuples of SpecOut have at most MaxOut entries
MaxOut == 2

-----------------------------------------------------------------------------
(* Python values.                                                          *)

None == [kind |-> "None"]
NoError == "none"

\* range(a, b)
Range(a, b) == a .. (b - 1)

\* seq[k] of a Python list (k >= 0): the value, or IndexError
InBounds(seq, k) == k >= 0 /\ k < Len(seq)
PyIndex(seq, k) == seq[k + 1]

RECURSIVE Pow2(_)
Pow2(n) == IF n = 0 THEN 1 ELSE 2 * Pow2(n - 1)

-----------------------------------------------------------------------------
(* Floating point.  A Python float (double precision) given to the         *)
(* constructor is modelled by the exact rational <<num, den>> it was       *)
(* written as.  A single-precision value, which is what the elements of a  *)
(* default-dtype torch tensor are, is [m, s] standing for m / 2^s with     *)
(* 2^23 <= m < 2^24 (24 significant bits), or Zero32.                      *)

Zero32 == [m |-> 0, s |-> 0]

\* the scale s at which p/q (p, q > 0) has a 24 bit integer part: 2^23 <= p*2^s/q < 2^24
RECURSIVE ScaleOf(_, _, _)
ScaleOf(p, q, s) == IF p * Pow2(s) >= q * Pow2(23) THEN s ELSE ScaleOf(p, q, s + 1)

\* round-to-nearest, ties-to-even, of the rational p/q (0 <= p/q <= 1) to single precision
ToFloat32(p, q) ==
    IF p = 0 THEN Zero32
    ELSE LET s   == ScaleOf(p, q, 0)
             n   == p * Pow2(s)
             m   == n \div q
             rem == n % q
             up  == (2 * rem > q) \/ (2 * rem = q /\ m % 2 = 1)
             m1  == IF up THEN m + 1 ELSE m
         IN  IF m1 = Pow2(24) THEN [m |-> Pow2(23), s |-> s - 1] ELSE [m |-> m1, s |-> s]

\* a <= b on single-precision values
Leq32(a, b) == \/ a.m = 0
               \/ b.m # 0 /\ (a.s > b.s \/ (a.s = b.s /\ a.m <= b.m))

\* tensor.item() == r for the Python float r = <<num, den>>: the single-precision
\* value, widened to double, is the double r
EqualsFloat(a, r) ==
    IF r[1] = 0 THEN a.m = 0
    ELSE LET s == ScaleOf(r[1], r[2], 0)
         IN  a.m # 0 /\ a.s = s /\ a.m * r[2] = r[1] * Pow2(s)

\* [x.item() for x in torch.linspace(0, rate, steps)]: steps evenly spaced
\* single-precision values from 0 to rate (one step: the start alone)
Linspace0(rate, steps) ==
    [k \in 1 .. steps |->
        IF steps = 1 THEN Zero32
        ELSE ToFloat32((k - 1) * rate[1], (steps - 1) * rate[2])]

-----------------------------------------------------------------------------
(* Conformer.__init__: architecture resolution.                            *)

\* Conformer.arch_zoo
arch_zoo ==
    LET tiny  == [embed_dims |-> 384, channel_ratio |-> 1, num_heads |-> 6, depths |-> 12]
        small == [embed_dims |-> 384, channel_ratio |-> 4, num_heads |-> 6, depths |-> 12]
        base  == [embed_dims |-> 576, channel_ratio |-> 6, num_heads |-> 9, depths |-> 12]
    IN  [n \in {"t", "tiny", "s", "small", "b", "base"} |->
            CASE n \in {"t", "tiny"}  -> tiny
              [] n \in {"s", "small"} -> small
              [] n \in {"b", "base"}  -> base]

\* str.lower() on the names the model passes as arch
Lower(str) ==
    CASE str \in {"T", "t"}               -> "t"
      [] str \in {"Tiny", "TINY", "tiny"} -> "tiny"
      [] str \in {"S", "s"}               -> "s"
      [] str \in {"Small", "small"}       -> "small"
      [] str \in {"B", "b"}               -> "b"
      [] str \in {"Base", "base"}         -> "base"
      [] str \in {"L", "l"}               -> "l"
      [] str \in {"Large", "large"}       -> "large"
      [] OTHER                            -> str

\* the essential_keys of the custom-arch branch
essential_keys == {"embed_dims", "depths", "num_head", "channel_ratio"}

\* An arch argument is [kind, name, mapping]: a str (kind "str", its name), a dict
\* (kind "dict", mapping the function from its keys to their values) or neither
\* (kind "list").
\* The if/else at the top of __init__: the arch_settings it selects, or the
\* AssertionError it raises.
ResolveArch(arch) ==
    IF arch.kind = "str"
    THEN LET a == Lower(arch.name)
         IN  IF a \in DOMAIN arch_zoo
             THEN [error |-> NoError, arch_settings |-> arch_zoo[a]]
             ELSE [error |-> "AssertionError: Arch is not in default archs",
                   arch_settings |-> << >>]
    ELSE IF arch.kind = "dict" /\ DOMAIN arch.mapping = essential_keys
         THEN [error |-> NoError, arch_settings |-> arch.mapping]
         ELSE [error |-> "AssertionError: Custom arch needs a dict with keys",
               arch_settings |-> << >>]

\* the four self.arch_settings[...] reads that follow: the first key that is
\* missing raises KeyError
SettingsKeys == <<"embed_dims", "depths", "num_heads", "channel_ratio">>

ReadSettings(arch_settings) ==
    LET missing == {k \in 1 .. Len(SettingsKeys) : SettingsKeys[k] \notin DOMAIN arch_settings}
    IN  IF missing = {}
        THEN NoError
        ELSE LET first == CHOOSE k \in missing : \A j \in missing : k <= j
             IN  IF SettingsKeys[first] = "num_heads" THEN "KeyError: num_heads"
                 ELSE IF SettingsKeys[first] = "embed_dims" THEN "KeyError: embed_dims"
                 ELSE IF SettingsKeys[first] = "depths" THEN "KeyError: depths"
                 ELSE "KeyError: channel_ratio"

-----------------------------------------------------------------------------
(* Submodule constructors.  A module is the record of what its __init__    *)
(* stores; channel counts and strides are what forward's shapes depend on. *)

\* ConvBlock.__init__
ConvBlock(inplanes, outplanes, stride, res_conv, drop_path) ==
    [inplanes   |-> inplanes,
     outplanes  |-> outplanes,
     med_planes |-> outplanes \div 4,
     stride     |-> stride,
     res_conv   |-> res_conv,
     drop_path  |-> IF drop_path.m > 0 THEN "DropPath" ELSE "Identity"]

\* FCUDown.__init__
FCUDown(inplanes, outplanes, dw_stride, cls_token) ==
    [inplanes |-> inplanes, outplanes |-> outplanes,
     dw_stride |-> dw_stride, cls_token |-> cls_token]

\* FCUUp.__init__
FCUUp(inplanes, outplanes, up_stride, cls_token) ==
    [inplanes |-> inplanes, outplanes |-> outplanes,
     up_stride |-> up_stride, cls_token |-> cls_token]

\* the TransformerEncoderLayer(...) call: the arguments it is given
TransformerEncoderLayer(embed_dims, num_heads, drop_path_rate) ==
    [embed_dims |-> embed_dims, num_heads |-> num_heads, drop_path_rate |-> drop_path_rate]

LastFusionBlock(outplanes, drop_path_rate) ==
    ConvBlock(outplanes, outplanes, 2, TRUE, drop_path_rate)

PlainFusionBlock(outplanes, drop_path_rate) ==
    ConvBlock(outplanes, outplanes, 1, FALSE, drop_path_rate)

\* ConvTransBlock.__init__ (num_med_block is never passed: 0)
ConvTransBlock(inplanes, outplanes, res_conv, stride, dw_stride, embed_dim, num_heads, cls_token, drop_path_rate, last_fusion) ==
    [cnn_block     |-> ConvBlock(inplanes, outplanes, stride, res_conv, Zero32),
     fusion_block  |-> IF last_fusion
                       THEN LastFusionBlock(outplanes, drop_path_rate)
                       ELSE PlainFusionBlock(outplanes, drop_path_rate),
     squeeze_block |-> FCUDown(outplanes \div 4, embed_dim, dw_stride, cls_token),
     expand_block  |-> FCUUp(embed_dim, outplanes \div 4, dw_stride, cls_token),
     trans_block   |-> TransformerEncoderLayer(embed_dim, num_heads, drop_path_rate),
     dw_stride     |-> dw_stride,
     embed_dim     |-> embed_dim,
     last_fusion   |-> last_fusion]

-----------------------------------------------------------------------------
(* Conformer.__init__: the stochastic depth rule and the stages.           *)

\* self.trans_dpr
TransDpr(drop_path_rate, depths) == Linspace0(drop_path_rate, depths)

\* 'conv_trans_' + str(i)
StageName(k) == "conv_trans_" \o ToString(k)

\* the three for-loops' ranges: range(init_stage, fin_stage) of
\* "2~4 stage", "5~8 stage" and "9~12 stage"
FinStage1(depths) == depths \div 3 + 1
FinStage2(depths) == FinStage1(depths) + depths \div 3
FinStage3(depths) == FinStage2(depths) + depths \div 3

Group1(depths) == Range(2, FinStage1(depths))
Group2(depths) == Range(FinStage1(depths), FinStage2(depths))
Group3(depths) == Range(FinStage2(depths), FinStage3(depths))

\* stage_1_channel, stage_2_channel, stage_3_channel (channel_ratio an integer:
\* int() changes nothing)
Stage1Channel(base_channel, channel_ratio) == base_channel * channel_ratio
\* (a second group as wide as the first)
Stage2ChannelNotDoubled(base_channel, channel_ratio) == base_channel * channel_ratio
Stage2Channel(base_channel, channel_ratio) == base_channel * channel_ratio * 2
Stage3Channel(base_channel, channel_ratio) == base_channel * channel_ratio * 2 * 2

\* trans_dw_stride
TransDwStride(patch_size) == patch_size \div 4

\* a third loop that never sets last_fusion on the stage it ends with
IsLastFusionOfNextStage(k, depths) == k = depths + 1

\* last_fusion of the third loop
IsLastFusion(k, depths) == k = depths

\* a block of stage k reading trans_dpr[k]
DprIndexOfStage(k) == k

\* the index into trans_dpr that the block of stage k is given
DprIndex(k) == k - 1

\* a group whose first block keeps the resolution
FirstStrideOne(k, init_stage) == 1

\* s = 2 if i == init_stage else 1
FirstStride(k, init_stage) == IF k = init_stage THEN 2 ELSE 1

\* the ConvTransBlock the first loop adds as conv_trans_<k>
Group1Block(k, st, a, dpr) ==
    LET c1 == Stage1Channel(a.base_channel, st.channel_ratio)
    IN  ConvTransBlock(c1, c1, FALSE, 1, TransDwStride(a.patch_size), st.embed_dims, st.num_heads, a.cls_token, PyIndex(dpr, DprIndex(k)), FALSE)

\* the ConvTransBlock the second loop adds as conv_trans_<k>
Group2Block(k, st, a, dpr) ==
    LET c1         == Stage1Channel(a.base_channel, st.channel_ratio)
        c2         == Stage2Channel(a.base_channel, st.channel_ratio)
        init_stage == FinStage1(st.depths)
        s          == FirstStride(k, init_stage)
        in_channel == IF k = init_stage THEN c1 ELSE c2
        res_conv   == k = init_stage
    IN  ConvTransBlock(in_channel, c2, res_conv, s, TransDwStride(a.patch_size) \div 2, st.embed_dims, st.num_heads, a.cls_token, PyIndex(dpr, DprIndex(k)), FALSE)

\* the ConvTransBlock the third loop adds as conv_trans_<k>
Group3Block(k, st, a, dpr) ==
    LET c2         == Stage2Channel(a.base_channel, st.channel_ratio)
        c3         == Stage3Channel(a.base_channel, st.channel_ratio)
        init_stage == FinStage2(st.depths)
        s          == FirstStride(k, init_stage)
        in_channel == IF k = init_stage THEN c2 ELSE c3
        res_conv   == k = init_stage
    IN  ConvTransBlock(in_channel, c3, res_conv, s, TransDwStride(a.patch_size) \div 4, st.embed_dims, st.num_heads, a.cls_token, PyIndex(dpr, DprIndex(k)), IsLastFusion(k, st.depths))

\* the stages the three loops add, by stage index
ConvTransStages(st, a, dpr) ==
    [k \in Group1(st.depths) \cup Group2(st.depths) \cup Group3(st.depths) |->
        IF k \in Group1(st.depths) THEN Group1Block(k, st, a, dpr)
        ELSE IF k \in Group2(st.depths) THEN Group2Block(k, st, a, dpr)
        ELSE Group3Block(k, st, a, dpr)]

\* the object before __init__ has set anything (after super().__init__)
NoObject ==
    [arch_settings |-> << >>, embed_dims |-> 0, depths |-> 0, num_heads |-> 0,
     channel_ratio |-> 0, out_indices |-> << >>, init_cfg |-> None,
     cls_token_flag |-> FALSE, has_cls_token |-> FALSE, trans_dpr |-> << >>,
     children |-> << >>, conv_1 |-> << >>, trans_patch_conv |-> << >>,
     trans_1 |-> << >>, conv_trans |-> << >>, fin_stage |-> 0]

\* the children registered before the first trans_dpr read
StemChildren == <<"conv1", "bn1", "act1", "maxpool", "conv_1", "trans_patch_conv">>

\* __init__ after the architecture is resolved, from the four settings reads on: the
\* fields it sets and, when it raises, the error and what was set before
ConformerInit(st, a) ==
    LET keyerr == ReadSettings(st)
    IN  IF keyerr # NoError
        THEN [error |-> keyerr, self |-> [NoObject EXCEPT !.arch_settings = st]]
        ELSE
        LET dpr  == TransDpr(a.drop_path_rate, st.depths)
            c1   == Stage1Channel(a.base_channel, st.channel_ratio)
            tds  == TransDwStride(a.patch_size)
            used == {DprIndex(k) : k \in {1} \cup Group1(st.depths) \cup Group2(st.depths) \cup Group3(st.depths)}
            base == [NoObject EXCEPT
                        !.arch_settings = st,
                        !.embed_dims = st.embed_dims,
                        !.depths = st.depths,
                        !.num_heads = st.num_heads,
                        !.channel_ratio = st.channel_ratio,
                        !.out_indices = a.out_indices,
                        !.init_cfg = a.init_cfg,
                        !.cls_token_flag = a.cls_token,
                        !.has_cls_token = a.cls_token,
                        !.trans_dpr = dpr,
                        !.children = StemChildren,
                        !.conv_1 = ConvBlock(64, c1, 1, TRUE, Zero32),
                        !.trans_patch_conv = [in_channels |-> 64, out_channels |-> st.embed_dims,
                                              kernel_size |-> tds, stride |-> tds]]
        IN  IF \E k \in used : ~InBounds(dpr, k)
            THEN [error |-> "IndexError: list index out of range", self |-> base]
            ELSE LET stages == ConvTransStages(st, a, dpr)
                 IN  [error |-> NoError,
                      self  |-> [base EXCEPT
                          !.trans_1 = TransformerEncoderLayer(st.embed_dims, st.num_heads, PyIndex(dpr, 0)),
                          !.conv_trans = stages,
                          !.fin_stage = FinStage3(st.depths),
                          !.children = StemChildren \o <<"trans_1">>
                                       \o [n \in 1 .. Cardinality(DOMAIN stages) |-> StageName(n + 1)]
                                       \o <<"pooling", "trans_norm">>]]

\* Conformer.__init__
Conformer(a) ==
    LET r == ResolveArch(a.arch)
    IN  IF r.error # NoError
        THEN [error |-> r.error, self |-> NoObject]
        ELSE ConformerInit(r.arch_settings, a)

-----------------------------------------------------------------------------
(* Tensors.  A tensor is [shape, id, uses]: its shape without the batch    *)
(* dimension (<<C, H, W>> for a feature map, <<L, E>> for a token          *)
(* sequence), the call that produced it, <<name, stage>>, and the ids of   *)
(* the tensors that call read.                                             *)

Tensor(shape, id, uses) == [shape |-> shape, id |-> id, uses |-> uses]

\* no tensor: an argument left at None, a local not assigned yet
NoTensor == Tensor(<< >>, <<"None", 0>>, {})

\* the locals of ConvTransBlock.forward before it runs
NoLocals == [x |-> NoTensor, x2 |-> NoTensor, x_st |-> NoTensor, x_t |-> NoTensor,
             x_t_r |-> NoTensor, H |-> 0, W |-> 0]

\* the result of a call that raised
Raised(what) == [error |-> what, out |-> NoTensor, out2 |-> NoTensor]
Returned(out, out2) == [error |-> NoError, out |-> out, out2 |-> out2]

ShapeError == "RuntimeError: shape mismatch"

\* output size of nn.Conv2d / nn.MaxPool2d along one dimension
ConvOut(h, k, st, p) == (h + 2 * p - k) \div st + 1
ConvOk(h, k, st, p) == k >= 1 /\ st >= 1 /\ h + 2 * p >= k

\* output size of nn.AvgPool2d(kernel_size=k, stride=k) along one dimension
PoolOut(h, k) == (h - k) \div k + 1
PoolOk(h, k) == k >= 1 /\ h >= k

\* a + b of two tensors of the same rank: broadcastable when every pair of sizes
\* is equal or holds a 1
Broadcastable(sa, sb) ==
    /\ Len(sa) = Len(sb)
    /\ \A d \in 1 .. Len(sa) : sa[d] = sb[d] \/ sa[d] = 1 \/ sb[d] = 1
Broadcast(sa, sb) == [d \in 1 .. Len(sa) |-> IF sa[d] = 1 THEN sb[d] ELSE sa[d]]

\* ConvBlock.forward(x, x_t, return_x_2): out is x, out2 is x2.  addend is the
\* x_t argument, NoTensor for None.
ConvBlockForward(m, xin, addend, name, stage) ==
    LET C   == xin.shape[1]
        H   == xin.shape[2]
        W   == xin.shape[3]
        s1  == <<m.med_planes, H, W>>
        ok2 == addend = NoTensor \/ Broadcastable(s1, addend.shape)
        s2  == IF addend = NoTensor THEN s1 ELSE Broadcast(s1, addend.shape)
        Ho  == ConvOut(s2[2], 3, m.stride, 1)
        Wo  == ConvOut(s2[3], 3, m.stride, 1)
        sx  == <<m.outplanes, Ho, Wo>>
        sr  == IF m.res_conv
               THEN <<m.outplanes, ConvOut(H, 1, m.stride, 0), ConvOut(W, 1, m.stride, 0)>>
               ELSE xin.shape
        uses == {xin.id} \cup (IF addend = NoTensor THEN {} ELSE {addend.id})
    IN  IF C # m.inplanes \/ m.med_planes < 1 THEN Raised(ShapeError)
        ELSE IF ~ok2 \/ s2[1] # m.med_planes THEN Raised(ShapeError)
        ELSE IF ~(Broadcastable(sx, sr) /\ Broadcast(sx, sr) = sx) THEN Raised(ShapeError)
        ELSE Returned(Tensor(sx, <<name, stage>>, uses),
                      Tensor(<<m.med_planes, Ho, Wo>>, <<name \o ".x2", stage>>, uses))

\* an FCUDown that never prepends the class token
FCUDownWithoutClsToken(m, xin, xt, stage) ==
    LET C == xin.shape[1]
        H == xin.shape[2]
        W == xin.shape[3]
        n == PoolOut(H, m.dw_stride) * PoolOut(W, m.dw_stride)
    IN  IF C # m.inplanes \/ ~PoolOk(H, m.dw_stride) \/ ~PoolOk(W, m.dw_stride)
        THEN Raised(ShapeError)
        ELSE Returned(Tensor(<<n, m.outplanes>>, <<"squeeze_block", stage>>, {xin.id}), NoTensor)

\* FCUDown.forward(x, x_t)
FCUDownForward(m, xin, xt, stage) ==
    LET C == xin.shape[1]
        H == xin.shape[2]
        W == xin.shape[3]
        n == PoolOut(H, m.dw_stride) * PoolOut(W, m.dw_stride)
    IN  IF C # m.inplanes \/ ~PoolOk(H, m.dw_stride) \/ ~PoolOk(W, m.dw_stride)
        THEN Raised(ShapeError)
        ELSE IF m.cls_token
        THEN IF xt.shape[2] # m.outplanes THEN Raised(ShapeError)
             ELSE Returned(Tensor(<<n + 1, m.outplanes>>, <<"squeeze_block", stage>>, {xin.id, xt.id}), NoTensor)
        ELSE Returned(Tensor(<<n, m.outplanes>>, <<"squeeze_block", stage>>, {xin.id}), NoTensor)

\* FCUUp.forward(x, H, W)
FCUUpForward(m, xt, H, W, stage) ==
    LET L == xt.shape[1]
        C == xt.shape[2]
        n == IF m.cls_token THEN L - 1 ELSE L
    IN  IF n # H * W \/ n < 1 \/ C # m.inplanes THEN Raised(ShapeError)
        ELSE Returned(Tensor(<<m.outplanes, H * m.up_stride, W * m.up_stride>>,
                             <<"expand_block", stage>>, {xt.id}), NoTensor)

\* TransformerEncoderLayer.forward: the sequence keeps its shape
TransForward(m, xin, name, stage) ==
    IF xin.shape[2] # m.embed_dims THEN Raised(ShapeError)
    ELSE Returned(Tensor(xin.shape, <<name, stage>>, xin.uses), NoTensor)

\* x_st + x_t
AddTokens(a, b) ==
    IF Broadcastable(a.shape, b.shape)
    THEN Returned(Tensor(Broadcast(a.shape, b.shape), <<"add", 0>>, {a.id, b.id}), NoTensor)
    ELSE Raised(ShapeError)

-----------------------------------------------------------------------------
(* Conformer.forward.  pc names the statement that runs next: "ready" (no  *)
(* call in progress), "loop" (the head of the for loop), the five calls of *)
(* ConvTransBlock.forward, "emit" (the out_indices test of the loop body), *)
(* "returned", "fwd_error".                                                *)

UnchangedInit == UNCHANGED <<scale, applied, zeroed, warned, loads>>

Fail(what) ==
    /\ pc' = "fwd_error"
    /\ err' = what
    /\ UNCHANGED <<args, self, img, i, x, x_t, loc, calls, output>>
    /\ UnchangedInit

\* side of x_base: conv1 (kernel 7, stride 2, padding 3), then maxpool (kernel 3,
\* stride 2, padding 1)
StemOut(h) == ConvOut(ConvOut(h, 7, 2, 3), 3, 2, 1)

\* the stem, conv_1, the patch embedding, the class token and trans_1
Stage1(H, W) ==
    LET H0     == StemOut(H)
        W0     == StemOut(W)
        x_base == Tensor(<<64, H0, W0>>, <<"stem", 0>>, {<<"input", 0>>})
        c      == ConvBlockForward(self.conv_1, x_base, NoTensor, "conv_1", 1)
        k      == self.trans_patch_conv.kernel_size
        n      == ConvOut(H0, k, k, 0) * ConvOut(W0, k, k, 0)
        seq    == IF self.cls_token_flag
                  THEN Tensor(<<n + 1, self.embed_dims>>, <<"cat", 1>>, {<<"cls_token", 0>>, x_base.id})
                  ELSE Tensor(<<n, self.embed_dims>>, <<"trans_patch_conv", 1>>, {x_base.id})
        t      == TransForward(self.trans_1, seq, "trans_1", 1)
    IN  IF c.error # NoError THEN Raised(c.error)
        ELSE IF ~ConvOk(H0, k, k, 0) \/ ~ConvOk(W0, k, k, 0) THEN Raised(ShapeError)
        ELSE IF t.error # NoError THEN Raised(t.error)
        ELSE Returned(c.out, t.out)

\* forward up to the loop: output = [], stem and stage 1
ForwardStage1 ==
    /\ pc \in {"ready", "loaded", "initialised"}
    /\ LET r == Stage1(img[1], img[2])
       IN  IF r.error # NoError
           THEN Fail(r.error)
           ELSE /\ pc' = "loop"
                /\ i' = 2
                /\ x' = r.out
                /\ x_t' = r.out2
                /\ output' = << >>
                /\ UNCHANGED <<args, self, err, img, loc, calls>>
                /\ UnchangedInit

\* eval('self.conv_trans_' + str(i))
Stage(k) == self.conv_trans[k]

Call(op, reads, out) == [op |-> op, reads |-> reads, out |-> out]

\* loop body, ConvTransBlock.forward: x, x2 = self.cnn_block(x); _, _, H, W = x2.shape
CnnBlock ==
    /\ pc = "loop"
    /\ i < self.fin_stage
    /\ LET r == ConvBlockForward(Stage(i).cnn_block, x, NoTensor, "cnn_block", i)
       IN  IF r.error # NoError
           THEN Fail(r.error)
           ELSE /\ pc' = "squeeze_block"
                /\ loc' = [NoLocals EXCEPT !.x = r.out, !.x2 = r.out2, !.x_t = x_t,
                                           !.H = r.out2.shape[2], !.W = r.out2.shape[3]]
                /\ calls' = <<Call("cnn_block", {x.id}, r.out.id)>>
                /\ UNCHANGED <<args, self, err, img, i, x, x_t, output>>
                /\ UnchangedInit

\* x_st = self.squeeze_block(x2, x_t)
SqueezeBlock ==
    /\ pc = "squeeze_block"
    /\ LET r == FCUDownForward(Stage(i).squeeze_block, loc.x2, loc.x_t, i)
       IN  IF r.error # NoError
           THEN Fail(r.error)
           ELSE /\ pc' = "trans_block"
                /\ loc' = [loc EXCEPT !.x_st = r.out]
                /\ calls' = Append(calls, Call("squeeze_block", r.out.uses, r.out.id))
                /\ UNCHANGED <<args, self, err, img, i, x, x_t, output>>
                /\ UnchangedInit

\* x_t = self.trans_block(x_st + x_t)
TransBlockOut(blk, l, k) ==
    LET sum == AddTokens(l.x_st, l.x_t)
    IN  IF sum.error # NoError THEN sum
        ELSE TransForward(blk.trans_block, sum.out, "trans_block", k)

TransBlock ==
    /\ pc = "trans_block"
    /\ LET r == TransBlockOut(Stage(i), loc, i)
       IN  IF r.error # NoError
           THEN Fail(r.error)
           ELSE /\ pc' = "expand_block"
                /\ loc' = [loc EXCEPT !.x_t = r.out]
                /\ calls' = Append(calls, Call("trans_block", r.out.uses, r.out.id))
                /\ UNCHANGED <<args, self, err, img, i, x, x_t, output>>
                /\ UnchangedInit

\* x_t_r = self.expand_block(x_t, H // self.dw_stride, W // self.dw_stride)
ExpandBlockOut(blk, l, k) ==
    IF blk.dw_stride = 0 THEN Raised("ZeroDivisionError")
    ELSE FCUUpForward(blk.expand_block, l.x_t, l.H \div blk.dw_stride, l.W \div blk.dw_stride, k)

ExpandBlock ==
    /\ pc = "expand_block"
    /\ LET r == ExpandBlockOut(Stage(i), loc, i)
       IN  IF r.error # NoError
           THEN Fail(r.error)
           ELSE /\ pc' = "fusion_block"
                /\ loc' = [loc EXCEPT !.x_t_r = r.out]
                /\ calls' = Append(calls, Call("expand_block", r.out.uses, r.out.id))
                /\ UNCHANGED <<args, self, err, img, i, x, x_t, output>>
                /\ UnchangedInit

\* a fusion block that is not given x_t_r
FusionWithoutTokens(blk, l, k) == ConvBlockForward(blk.fusion_block, l.x, NoTensor, "fusion_block", k)

\* x = self.fusion_block(x, x_t_r, return_x_2=False); return x, x_t
\* and the caller's x, x_t = ...
FusionBlockOut(blk, l, k) == ConvBlockForward(blk.fusion_block, l.x, l.x_t_r, "fusion_block", k)

FusionBlock ==
    /\ pc = "fusion_block"
    /\ LET r == FusionBlockOut(Stage(i), loc, i)
       IN  IF r.error # NoError
           THEN Fail(r.error)
           ELSE /\ pc' = "emit"
                /\ loc' = [loc EXCEPT !.x = r.out]
                /\ calls' = Append(calls, Call("fusion_block", r.out.uses, r.out.id))
                /\ x' = r.out
                /\ x_t' = loc.x_t
                /\ UNCHANGED <<args, self, err, img, i, output>>
                /\ UnchangedInit

\* i in self.out_indices
InTuple(k, t) == \E j \in 1 .. Len(t) : t[j] = k

\* the pair forward appends: [self.pooling(x).flatten(1), self.trans_norm(x_t)[:, 0]]
\* or [..., self.trans_norm(x_t).mean(dim=1)]
OutputPair(k, conv, tok, cls_token_flag) ==
    [stage      |-> k,
     pooled     |-> <<conv.shape[1]>>,
     pooled_of  |-> conv.id,
     token      |-> <<tok.shape[2]>>,
     token_of   |-> tok.id,
     token_from |-> IF cls_token_flag THEN "index 0" ELSE "mean"]

\* an out_indices test that is one stage early
EmitsOneStageEarly(k, out_indices) == InTuple(k + 1, out_indices)

\* which stages append to output
Emits(k, out_indices) == InTuple(k, out_indices)

\* the rest of the loop body: if i in self.out_indices: output.append(...)
Emit ==
    /\ pc = "emit"
    /\ output' = IF Emits(i, self.out_indices)
                 THEN Append(output, OutputPair(i, x, x_t, self.cls_token_flag))
                 ELSE output
    /\ i' = i + 1
    /\ pc' = "loop"
    /\ UNCHANGED <<args, self, err, img, x, x_t, loc, calls>>
    /\ UnchangedInit

\* return tuple(output)
Return ==
    /\ pc = "loop"
    /\ i >= self.fin_stage
    /\ pc' = "returned"
    /\ UNCHANGED <<args, self, err, img, i, x, x_t, loc, calls, output>>
    /\ UnchangedInit

NextForward ==
    \/ ForwardStage1
    \/ CnnBlock
    \/ SqueezeBlock
    \/ TransBlock
    \/ ExpandBlock
    \/ FusionBlock
    \/ Emit
    \/ Return

-----------------------------------------------------------------------------
(* Conformer.init_weights and _init_weights.  A module of the tree is      *)
(* [path, kind]: its dotted name from the Conformer and its class.         *)
(* self.apply(fn) calls fn on every module of the tree, the children of a  *)
(* module in the order they were registered and before the module itself.  *)
(* TransformerEncoderLayer is one node: its submodules are defined outside *)
(* conformer.py and hold no ConvBlock.                                     *)

Module(path, kind) == [path |-> path, kind |-> kind]

Sub(path, name) == path \o "." \o name

\* the modules ConvBlock.__init__ registers, in order
ConvBlockChildren(path, m) ==
    <<Module(Sub(path, "conv1"), "Conv2d"), Module(Sub(path, "bn1"), "BatchNorm2d"),
      Module(Sub(path, "act1"), "ReLU"),
      Module(Sub(path, "conv2"), "Conv2d"), Module(Sub(path, "bn2"), "BatchNorm2d"),
      Module(Sub(path, "act2"), "ReLU"),
      Module(Sub(path, "conv3"), "Conv2d"), Module(Sub(path, "bn3"), "BatchNorm2d"),
      Module(Sub(path, "act3"), "ReLU")>>
    \o (IF m.res_conv
        THEN <<Module(Sub(path, "residual_conv"), "Conv2d"),
               Module(Sub(path, "residual_bn"), "BatchNorm2d")>>
        ELSE << >>)
    \o <<Module(Sub(path, "drop_path"), m.drop_path)>>

\* a traversal that visits the module before its children
PreOrder(children, module) == <<module>> \o children

\* nn.Module.apply on a module: the children's subtrees, then the module
PostOrder(children, module) == children \o <<module>>

\* the order apply visits a ConvBlock's subtree in
ConvBlockModules(path, m) == PostOrder(ConvBlockChildren(path, m), Module(path, "ConvBlock"))

FCUDownModules(path) ==
    <<Module(Sub(path, "conv_project"), "Conv2d"), Module(Sub(path, "sample_pooling"), "AvgPool2d"),
      Module(Sub(path, "ln"), "LayerNorm"), Module(Sub(path, "act"), "GELU"),
      Module(path, "FCUDown")>>

FCUUpModules(path) ==
    <<Module(Sub(path, "conv_project"), "Conv2d"), Module(Sub(path, "bn"), "BatchNorm2d"),
      Module(Sub(path, "act"), "ReLU"), Module(path, "FCUUp")>>

\* the order apply visits a ConvTransBlock's subtree in
ConvTransBlockModules(path, m) ==
    PostOrder(ConvBlockModules(Sub(path, "cnn_block"), m.cnn_block)
                \o ConvBlockModules(Sub(path, "fusion_block"), m.fusion_block)
                \o FCUDownModules(Sub(path, "squeeze_block"))
                \o FCUUpModules(Sub(path, "expand_block"))
                \o <<Module(Sub(path, "trans_block"), "TransformerEncoderLayer")>>,
              Module(path, "ConvTransBlock"))

\* the subtree of the child of the Conformer registered as name
ChildModules(obj, name) ==
    CASE name = "conv1"            -> <<Module(name, "Conv2d")>>
      [] name = "bn1"              -> <<Module(name, "BatchNorm2d")>>
      [] name = "act1"             -> <<Module(name, "ReLU")>>
      [] name = "maxpool"          -> <<Module(name, "MaxPool2d")>>
      [] name = "conv_1"           -> ConvBlockModules(name, obj.conv_1)
      [] name = "trans_patch_conv" -> <<Module(name, "Conv2d")>>
      [] name = "trans_1"          -> <<Module(name, "TransformerEncoderLayer")>>
      [] name = "pooling"          -> <<Module(name, "AdaptiveAvgPool2d")>>
      [] name = "trans_norm"       -> <<Module(name, "LayerNorm")>>
      [] OTHER -> LET k == CHOOSE n \in DOMAIN obj.conv_trans : StageName(n) = name
                  IN  ConvTransBlockModules(name, obj.conv_trans[k])

RECURSIVE ChildrenModules(_, _)
ChildrenModules(obj, n) ==
    IF n = 0 THEN << >>
    ELSE ChildrenModules(obj, n - 1) \o ChildModules(obj, obj.children[n])

\* the sequence of modules self.apply(fn) calls fn on
ModuleList(obj) ==
    PostOrder(ChildrenModules(obj, Len(obj.children)), Module("", "Conformer"))

\* the normalization layers of the object
NormPaths(obj) ==
    LET ms == ModuleList(obj)
    IN  {ms[n].path : n \in {k \in 1 .. Len(ms) : ms[k].kind \in {"BatchNorm2d", "LayerNorm"}}}

\* the ConvBlocks of the object
ConvBlockPaths(obj) ==
    LET ms == ModuleList(obj)
    IN  {ms[n].path : n \in {k \in 1 .. Len(ms) : ms[k].kind = "ConvBlock"}}

\* hasattr(m, 'zero_init_last_bn')
HasZeroInit(m) == m.kind = "ConvBlock"

\* the normalization weights after the isinstance chain of _init_weights(m)
InitByType(m, sc) ==
    IF m.kind \in {"LayerNorm", "BatchNorm2d"} THEN [sc EXCEPT ![m.path] = "constant 1"] ELSE sc

\* ConvBlock.zero_init_last_bn
ZeroInitLastBn(m, sc) == [sc EXCEPT ![Sub(m.path, "bn3")] = "zeros"]

\* Conformer._init_weights(m), on the normalization weights
InitWeightsOf(m, sc) ==
    LET sc1 == InitByType(m, sc)
    IN  IF HasZeroInit(m) THEN ZeroInitLastBn(m, sc1) ELSE sc1

UnchangedForward == UNCHANGED <<img, i, x, x_t, loc, calls, output>>

\* the test of init_weights' if: "Pretrained" (load), "default" (else branch), or
\* the exception evaluating it raises
InitBranch(cfg) ==
    IF cfg.kind \in {"dict", "ConfigDict"}
    THEN IF "type" \notin cfg.keys THEN "KeyError: type"
         ELSE IF cfg.type = "Pretrained" THEN "Pretrained"
         ELSE "default"
    ELSE "default"

\* self.init_cfg.checkpoint: attribute access on the init_cfg object
CheckpointAttr(cfg) ==
    IF cfg.kind = "ConfigDict" /\ "checkpoint" \in cfg.keys THEN NoError
    ELSE "AttributeError: checkpoint"

\* init_weights up to the load_checkpoint call or the start of self.apply
InitWeights ==
    /\ pc = "ready"
    /\ applied = 0 /\ loads = << >>
    /\ LET b == InitBranch(self.init_cfg)
       IN  CASE b = "Pretrained" /\ CheckpointAttr(self.init_cfg) = NoError ->
                  /\ loads' = <<[strict |-> FALSE, map_location |-> "cpu"]>>
                  /\ pc' = "loaded"
                  /\ UNCHANGED <<err, warned>>
             [] b = "Pretrained" /\ CheckpointAttr(self.init_cfg) # NoError ->
                  /\ pc' = "init_error"
                  /\ err' = CheckpointAttr(self.init_cfg)
                  /\ UNCHANGED <<loads, warned>>
             [] b = "default" ->
                  /\ warned' = TRUE
                  /\ pc' = "apply"
                  /\ UNCHANGED <<err, loads>>
             [] OTHER ->
                  /\ pc' = "init_error"
                  /\ err' = b
                  /\ UNCHANGED <<loads, warned>>
    /\ UNCHANGED <<args, self, scale, applied, zeroed>>
    /\ UnchangedForward

\* one call of fn by self.apply(self._init_weights); after the last one
\* init_weights returns
Apply ==
    /\ pc = "apply"
    /\ LET ms == ModuleList(self)
           m  == ms[applied + 1]
       IN  /\ scale' = InitWeightsOf(m, scale)
           /\ zeroed' = IF HasZeroInit(m) THEN zeroed \cup {m.path} ELSE zeroed
           /\ applied' = applied + 1
           /\ pc' = IF applied + 1 = Len(ms) THEN "initialised" ELSE "apply"
    /\ UNCHANGED <<args, self, err, warned, loads>>
    /\ UnchangedForward

NextInitWeights == InitWeights \/ Apply

-----------------------------------------------------------------------------
(* The arguments the model constructs Conformer objects with.              *)

\* init_cfg values: None, a plain dict, an mmcv ConfigDict (a dict whose keys are
\* also attributes), a list of dicts
InitCfg(kind, keys, type) == [kind |-> kind, keys |-> keys, type |-> type]

InitCfgs ==
    {None,
     InitCfg("dict", {"type", "checkpoint"}, "Pretrained"),
     InitCfg("ConfigDict", {"type", "checkpoint"}, "Pretrained"),
     InitCfg("dict", {"type", "layer"}, "Kaiming"),
     InitCfg("dict", {"checkpoint"}, ""),
     InitCfg("list", {}, "")}

\* the defaults of __init__'s signature
DefaultArgs ==
    [arch           |-> [kind |-> "str", name |-> "T", mapping |-> << >>],
     patch_size     |-> 16,
     base_channel   |-> 64,
     cls_token      |-> TRUE,
     drop_path_rate |-> <<0, 1>>,
     out_indices    |-> <<12>>,
     init_cfg       |-> None]

ArchNames == {"T", "tiny", "TINY", "s", "Small", "b", "base", "l", "large"}

CustomArchs ==
    {[embed_dims |-> 384, depths |-> 12, num_heads |-> 6, channel_ratio |-> 1],
     [embed_dims |-> 384, depths |-> 12, num_head |-> 6, channel_ratio |-> 1],
     [embed_dims |-> 384, depths |-> 12, channel_ratio |-> 1],
     [embed_dims |-> 384, depths |-> 12, num_heads |-> 6, channel_ratio |-> 1, mlp_ratio |-> 4]}

ArchInputs ==
    {[kind |-> "str", name |-> n, mapping |-> << >>] : n \in ArchNames}
    \cup {[kind |-> "dict", name |-> "", mapping |-> m] : m \in CustomArchs}
    \cup {[kind |-> "list", name |-> "", mapping |-> << >>]}

\* drop_path_rate values: 0.0, 0.1, 0.2, 0.25, 0.5
DropPathRates == {<<0, 1>>, <<1, 10>>, <<1, 5>>, <<1, 4>>, <<1, 2>>}

\* the settings mappings of SpecArch
ArchSettings ==
    {[embed_dims |-> 384, depths |-> d, num_heads |-> 6, channel_ratio |-> r] :
        d \in 0 .. MaxDepths, r \in {1, 4}}

BaseChannels == {32, 64}

\* the arguments of SpecArch
ArchArgs ==
    {[DefaultArgs EXCEPT !.arch = [kind |-> "dict", name |-> "", mapping |-> st],
                         !.drop_path_rate = dp, !.base_channel = b] :
        st \in ArchSettings, dp \in DropPathRates, b \in BaseChannels}

\* tuples of at most n entries over S
RECURSIVE Tuples(_, _)
Tuples(S, n) ==
    IF n = 0 THEN {<< >>}
    ELSE Tuples(S, n - 1) \cup {Append(t, e) : t \in {u \in Tuples(S, n - 1) : Len(u) = n - 1}, e \in S}

PresetNames == {"tiny", "small", "base"}

\* the arguments of SpecOut: every preset, every out_indices tuple of at most
\* MaxOut stage indices in 1 .. depths
OutArgs ==
    UNION {{[DefaultArgs EXCEPT !.arch.name = n, !.out_indices = t] :
                t \in Tuples(1 .. arch_zoo[n].depths, MaxOut)} : n \in PresetNames}

\* patch_size values; the image sides, in pixels
PatchSizes == {8, 16, 20, 32}
ImgSizes == {64, 80, 200, 224}

\* the arguments of SpecFwd: every preset and patch size, with and without class token
FwdArgs ==
    {[DefaultArgs EXCEPT !.arch.name = n, !.cls_token = c, !.patch_size = ps] :
        n \in PresetNames, c \in BOOLEAN, ps \in PatchSizes}

\* the arguments of Spec: every arch input and init_cfg, with and without class token
SpecArgs ==
    {[DefaultArgs EXCEPT !.arch = a, !.cls_token = c, !.init_cfg = ic] :
        a \in ArchInputs, c \in BOOLEAN, ic \in InitCfgs}

\* the state after Conformer(**a) returned or raised; im is the <<H, W>> of the
\* image batch that forward will be called with
Constructed(a, r, im) ==
    /\ args = a
    /\ self = r.self
    /\ err = r.error
    /\ pc = IF r.error = NoError THEN "ready" ELSE "ctor_error"
    /\ scale = IF r.error = NoError THEN [q \in NormPaths(r.self) |-> "ones"] ELSE << >>
    /\ applied = 0
    /\ zeroed = {}
    /\ warned = FALSE
    /\ loads = << >>
    /\ img = im
    /\ i = 0
    /\ x = NoTensor
    /\ x_t = NoTensor
    /\ loc = NoLocals
    /\ calls = << >>
    /\ output = << >>

-----------------------------------------------------------------------------
(* Specifications.                                                         *)

\* The whole program on 224 x 224 images: every arch argument and init_cfg.
Init == \E a \in SpecArgs : Constructed(a, Conformer(a), <<224, 224>>)

Next == NextInitWeights \/ NextForward

Spec == Init /\ [][Next]_vars

\* The stage construction as a function of the settings: the object __init__ builds
\* from a settings mapping once it is selected as self.arch_settings (as the entry
\* of a preset is), for depths 0 .. MaxDepths.
InitArch == \E a \in ArchArgs : Constructed(a, ConformerInit(a.arch.mapping, a), <<224, 224>>)

SpecArch == InitArch /\ [][Next]_vars

\* forward on the presets, for every out_indices tuple.
InitOut == \E a \in OutArgs : Constructed(a, Conformer(a), <<224, 224>>)

SpecOut == InitOut /\ [][NextForward]_vars

\* forward on the presets, for every image and patch size.
InitFwd ==
    \E a \in FwdArgs, H \in ImgSizes, W \in ImgSizes : Constructed(a, Conformer(a), <<H, W>>)

SpecFwd == InitFwd /\ [][NextForward]_vars

-----------------------------------------------------------------------------
(* Properties of forward's output (SpecOut).                               *)

StrictlyIncreasing(t) == \A j \in 1 .. Len(t) - 1 : t[j] < t[j + 1]

\* the k-th pair of output is the one stage n emits
PairOfStage(k, n) ==
    /\ output[k].stage = n
    /\ output[k].pooled_of = <<"fusion_block", n>>
    /\ output[k].token_of = <<"trans_block", n>>
    /\ output[k].pooled = <<self.conv_trans[n].fusion_block.outplanes>>
    /\ output[k].token = <<self.embed_dims>>

\* C1 as stated: for every preset and every out_indices tuple of stage indices in
\* 1 .. depths, a forward pass that returned holds len(out_indices) pairs, the
\* k-th being the pair emitted for the k-th requested stage.
C1_OnePairPerEntry ==
    pc = "returned" =>
        /\ Len(output) = Len(self.out_indices)
        /\ \A k \in 1 .. Len(output) :
              /\ self.out_indices[k] \in DOMAIN self.conv_trans
              /\ PairOfStage(k, self.out_indices[k])

\* C1, amended: the same for every out_indices tuple that is strictly increasing
\* and whose entries are stage indices in 2 .. depths (stage 1 emits nothing, a
\* repeated index emits one pair, and pairs come in stage order).
C1_OnePairPerIncreasingEntry ==
    (/\ pc = "returned"
     /\ StrictlyIncreasing(self.out_indices)
     /\ \A k \in 1 .. Len(self.out_indices) : self.out_indices[k] \in 2 .. self.depths) =>
        /\ Len(output) = Len(self.out_indices)
        /\ \A k \in 1 .. Len(output) : PairOfStage(k, self.out_indices[k])

C1_TwoStagesReturned ==
    /\ pc = "returned"
    /\ self.out_indices = <<4, 12>>
    /\ Len(output) = 2
    /\ output[1].stage = 4
    /\ output[2].stage = 12

-----------------------------------------------------------------------------
(* Properties of the whole program (Spec).                                 *)

\* C2 as stated: construction resolves the architecture iff arch is a preset name
\* in any case or a mapping whose key set is {embed_dims, depths, num_heads,
\* channel_ratio}; such a mapping's values become the settings; anything else
\* fails with the assertion's message before any submodule is built.
C2_ResolvesIffValid ==
    LET a     == args.arch
        names == {"t", "T", "tiny", "Tiny", "TINY", "s", "S", "small", "Small", "SMALL",
                  "b", "B", "base", "Base", "BASE"}
        valid == \/ a.kind = "str" /\ a.name \in names
                 \/ a.kind = "dict"
                    /\ DOMAIN a.mapping = {"embed_dims", "depths", "num_heads", "channel_ratio"}
    IN  /\ valid =>
              /\ pc # "ctor_error"
              /\ a.kind = "dict" =>
                    /\ self.arch_settings = a.mapping
                    /\ self.embed_dims = a.mapping.embed_dims
                    /\ self.depths = a.mapping.depths
                    /\ self.num_heads = a.mapping.num_heads
                    /\ self.channel_ratio = a.mapping.channel_ratio
        /\ ~valid =>
              /\ pc = "ctor_error"
              /\ err \in {"AssertionError: Arch is not in default archs",
                          "AssertionError: Custom arch needs a dict with keys"}
              /\ self.children = << >>

\* C7 as stated: with an init_cfg mapping of type 'Pretrained' that names a
\* checkpoint, init_weights never applies the default initialisation and loads the
\* checkpoint non-strictly; with no init_cfg it does not fail, warns and applies
\* the default initialisation to every submodule.
C7_TwoPaths ==
    LET cfg        == self.init_cfg
        pretrained == /\ cfg.kind \in {"dict", "ConfigDict"}
                      /\ cfg.keys = {"type", "checkpoint"}
                      /\ cfg.type = "Pretrained"
    IN  /\ pretrained =>
              /\ pc # "init_error"
              /\ applied = 0
              /\ ~warned
              /\ pc = "loaded" => loads = <<[strict |-> FALSE, map_location |-> "cpu"]>>
        /\ cfg = None =>
              /\ pc # "init_error"
              /\ loads = << >>
              /\ pc = "apply" => warned
              /\ pc = "initialised" => warned /\ applied = Len(ModuleList(self))

\* C10: once the default path of init_weights has completed, the hook has been
\* called on every ConvBlock (conv_1, the cnn_block and the fusion_block of every
\* stage) and the scale of each one's bn3 is zero; while the traversal runs, a bn3
\* that was zeroed is never written again.
C10_LastBnZero ==
    LET blocks == {"conv_1"} \cup
                  UNION {{Sub(StageName(k), "cnn_block"), Sub(StageName(k), "fusion_block")} :
                            k \in DOMAIN self.conv_trans}
    IN  /\ (warned /\ pc # "apply") =>
              /\ zeroed = blocks
              /\ \A p \in blocks : scale[Sub(p, "bn3")] = "zeros"
        /\ pc = "apply" =>
              /\ zeroed \subseteq blocks
              /\ \A p \in zeroed : scale[Sub(p, "bn3")] = "zeros"

C10_Initialised ==
    /\ pc = "initialised"
    /\ "conv_1" \in zeroed
    /\ scale["conv_trans_12.fusion_block.bn3"] = "zeros"
    /\ scale["conv_trans_12.fusion_block.bn2"] = "constant 1"

-----------------------------------------------------------------------------
(* Properties of one forward pass (SpecFwd).                               *)

\* the number of spatial tokens of the patch embedding
SpatialTokens ==
    LET tds == args.patch_size \div 4
    IN  (StemOut(img[1]) \div tds) * (StemOut(img[2]) \div tds)

SeqLen == SpatialTokens + (IF args.cls_token THEN 1 ELSE 0)

\* C4 as stated: after stage 1 and after every stage, x_t has (spatial tokens) + 1
\* entries with the class token and + 0 without; the x_st that squeeze_block
\* returns is as long as the incoming x_t; the emitted token feature is entry 0
\* with the class token and the mean without.
C4_TokenLength ==
    /\ pc \in {"loop", "squeeze_block", "trans_block", "expand_block", "fusion_block",
               "emit", "returned"} => x_t.shape[1] = SeqLen
    /\ pc = "trans_block" =>
          /\ loc.x_t.shape[1] = SeqLen
          /\ loc.x_st.shape[1] = loc.x_t.shape[1]
    /\ pc \in {"expand_block", "fusion_block", "emit"} => loc.x_t.shape[1] = SeqLen
    /\ \A k \in 1 .. Len(output) :
          output[k].token_from = IF args.cls_token THEN "index 0" ELSE "mean"

\* C4, amended: the same whenever patch_size is a multiple of 16, whatever the
\* image size, in every state the forward pass reaches.
C4_TokenLengthPatch16 == args.patch_size % 16 = 0 => C4_TokenLength

C4_ReturnedWithoutClsToken ==
    /\ pc = "returned"
    /\ ~args.cls_token
    /\ args.patch_size = 16
    /\ img = <<224, 224>>
    /\ x_t.shape[1] = 196
    /\ Len(output) = 1
    /\ output[1].token_from = "mean"

\* C8: the calls of one ConvTransBlock.forward are cnn_block, squeeze_block,
\* trans_block, expand_block, fusion_block in that order; squeeze_block reads the
\* x2 of this stage's cnn_block, trans_block the sum of x_st and the incoming x_t,
\* expand_block this stage's trans_block output, fusion_block this stage's
\* cnn_block output and x_t_r; the only token-branch call reading a convolutional
\* tensor is squeeze_block and the only convolutional-branch call reading a token
\* tensor is expand_block; the pair returned is (fusion_block output, trans_block output).
C8_StepOrder ==
    LET ops      == <<"cnn_block", "squeeze_block", "trans_block", "expand_block", "fusion_block">>
        done     == CASE pc = "squeeze_block" -> 1
                      [] pc = "trans_block"   -> 2
                      [] pc = "expand_block"  -> 3
                      [] pc = "fusion_block"  -> 4
                      [] pc = "emit"          -> 5
                      [] OTHER                -> 0
        incoming == IF i = 2 THEN <<"trans_1", 1>> ELSE <<"trans_block", i - 1>>
        conv_in  == IF i = 2 THEN <<"conv_1", 1>> ELSE <<"fusion_block", i - 1>>
        token    == {"trans_1", "trans_block", "squeeze_block"}
        crossing == {n \in 1 .. Len(calls) :
                        \E id \in calls[n].reads : (id[1] \in token) # (calls[n].out[1] \in token)}
    IN  done > 0 =>
          /\ Len(calls) = done
          /\ \A n \in 1 .. done : calls[n].op = ops[n] /\ calls[n].out[2] = i
          /\ calls[1].reads = {conv_in}
          /\ done >= 2 => calls[2].reads = {<<"cnn_block.x2", i>>}
                                           \cup (IF args.cls_token THEN {incoming} ELSE {})
          /\ done >= 3 => calls[3].reads = {<<"squeeze_block", i>>, incoming}
          /\ done >= 4 => calls[4].reads = {<<"trans_block", i>>}
          /\ done = 5 =>
                /\ calls[5].reads = {<<"cnn_block", i>>, <<"expand_block", i>>}
                /\ crossing = {2, 4}
                /\ x.id = <<"fusion_block", i>> /\ x.id = calls[5].out
                /\ x_t.id = <<"trans_block", i>> /\ x_t.id = calls[3].out

C8_StageFiveDone ==
    /\ pc = "emit"
    /\ i = 5
    /\ args.cls_token
    /\ Len(calls) = 5
    /\ calls[5].op = "fusion_block"

-----------------------------------------------------------------------------
(* Properties of the stage construction (SpecArch).                        *)

Blocks == {1} \cup DOMAIN self.conv_trans

\* the drop rate given to the transformer block of stage k
BlockRate(k) ==
    IF k = 1 THEN self.trans_1.drop_path_rate ELSE self.conv_trans[k].trans_block.drop_path_rate

NonDecreasing == \A a, b \in Blocks : a <= b => Leq32(BlockRate(a), BlockRate(b))

\* depths of the settings is a positive multiple of 3
DepthsMultipleOf3 == args.arch.mapping.depths > 0 /\ args.arch.mapping.depths % 3 = 0

OutChannels(k) ==
    IF k = 1 THEN self.conv_1.outplanes ELSE self.conv_trans[k].fusion_block.outplanes

\* C5: with B = base_channel, r = channel_ratio and g = depths / 3, stages 1 .. g
\* output B*r channels, stages g+1 .. 2g output 2*B*r, stages 2g+1 .. 3g output
\* 4*B*r; every block takes as many channels as the block before it outputs; the
\* pooled feature of a stage has that stage's channel count (256 at the final
\* stage of tiny).
C5_ChannelDoubling ==
    pc # "ctor_error" =>
        LET B == args.base_channel
            r == self.channel_ratio
            g == self.depths \div 3
        IN  /\ DOMAIN self.conv_trans = 2 .. 3 * g
            /\ self.conv_1.inplanes = 64
            /\ \A k \in Blocks :
                  OutChannels(k) = (IF k = 1 \/ k <= g THEN 1 ELSE IF k <= 2 * g THEN 2 ELSE 4) * B * r
            /\ \A k \in DOMAIN self.conv_trans :
                  /\ self.conv_trans[k].cnn_block.inplanes = OutChannels(k - 1)
                  /\ self.conv_trans[k].fusion_block.inplanes = self.conv_trans[k].cnn_block.outplanes
            /\ \A k \in 1 .. Len(output) : output[k].pooled = <<OutChannels(output[k].stage)>>
            /\ (B = 64 /\ r = 1 /\ g >= 1) =>
                  /\ OutChannels(1) = 64 /\ OutChannels(g + 1) = 128 /\ OutChannels(2 * g + 1) = 256
                  /\ \A k \in 1 .. Len(output) : output[k].stage = 3 * g => output[k].pooled = <<256>>

C5_TinyReturned ==
    /\ pc = "returned"
    /\ self.arch_settings = arch_zoo["tiny"]
    /\ args.base_channel = 64
    /\ Len(output) = 1
    /\ output[1].stage = 12
    /\ output[1].pooled = <<256>>

\* C6 as stated: in each of the three groups of ConvTransBlock stages the first
\* block's cnn_block has stride 2 and a shortcut projection and every other block
\* has stride 1.
C6_EachGroupDownsamples ==
    pc # "ctor_error" =>
        LET g     == self.depths \div 3
            first == <<2, g + 1, 2 * g + 1>>
            last  == <<g, 2 * g, 3 * g>>
        IN  \A n \in 1 .. 3 : \A k \in first[n] .. last[n] :
                IF k = first[n]
                THEN self.conv_trans[k].cnn_block.stride = 2 /\ self.conv_trans[k].cnn_block.res_conv
                ELSE self.conv_trans[k].cnn_block.stride = 1

\* C6, amended: the first block of the second and of the third group has a
\* cnn_block of stride 2 with a shortcut projection, which halves the feature map;
\* every block of the first group and every other block of the second and third
\* groups has a cnn_block of stride 1 without one, which keeps the feature map's size.
C6_LaterGroupsDownsample ==
    pc # "ctor_error" =>
        LET g     == self.depths \div 3
            first == {g + 1, 2 * g + 1}
        IN  /\ self.conv_1.stride = 1
            /\ \A k \in DOMAIN self.conv_trans :
                  /\ self.conv_trans[k].cnn_block.stride = (IF k \in first THEN 2 ELSE 1)
                  /\ self.conv_trans[k].cnn_block.res_conv = (k \in first)
            /\ pc = "squeeze_block" =>
                  /\ loc.x.shape[2] = (IF i \in first THEN (x.shape[2] + 1) \div 2 ELSE x.shape[2])
                  /\ loc.x.shape[3] = (IF i \in first THEN (x.shape[3] + 1) \div 2 ELSE x.shape[3])

C6_StageFiveHalved ==
    /\ pc = "squeeze_block"
    /\ self.depths = 12
    /\ i = 5
    /\ x.shape[2] = 56
    /\ loc.x.shape[2] = 28

LastFusionStages == {k \in DOMAIN self.conv_trans : self.conv_trans[k].last_fusion}

=============================================================================
